---- MODULE Spec2Model ----
(***************************************************************************)
(* Model of the document ingestion and semantic search service:            *)
(* POST /api/process (DocumentService.saveDocument), POST /api/search      *)
(* (DocumentService.searchDocuments) and GET /api/documents, over the      *)
(* SQLite tables documents and embeddings.                                 *)
(*                                                                         *)
(* Every await and every database callback of the handlers is a step of    *)
(* its own, so that concurrent requests interleave as they do on the Node  *)
(* event loop.  db.run for the embedding row is issued without waiting:    *)
(* the statement sits in dbQueue until the database thread completes it.   *)
(*                                                                         *)
(* A request's record lives from its arrival to the state in which its     *)
(* response is sent (pc = "done"); the next step of the system drops it.   *)
(* What an ingestion did for the document it created is kept, per          *)
(* document, in ingested.                                                  *)
(*                                                                         *)
(* Numbers are exact rationals [num, den] (den > 0) and NaN is 0/0; the    *)
(* result of an addition or division of JavaScript numbers is rounded to   *)
(* the significand of a double.                                            *)
(*                                                                         *)
(* Spec is the specification of these three endpoints over a ./uploads     *)
(* directory that does not change, and LiveSpec the same handlers with     *)
(* the fairness of the event loop and of the collaborators.  UploadSpec    *)
(* is the specification of POST /api/upload alone, ChunkSpec that of       *)
(* single calls of EmbeddingService.chunkText, MeanSpec that of the        *)
(* averaging in generateEmbeddingsForDocument, and TxtSpec that of single  *)
(* calls of TextExtractionService.extractFromTxt.                          *)
(***************************************************************************)
EXTENDS Integers, Sequences, FiniteSets, TLC

(***************************************************************************)
(* Bounds of the model.                                                    *)
(***************************************************************************)
\* number of HTTP requests in one behaviour
MaxReqs == 3
\* number of requests being served at one time
MaxInFlight == 2
\* longest extracted text, in characters
MaxTextLen == 3
\* seconds that pass on the database clock
MaxClock == 1
\* largest limit and page a caller passes
MaxLimit == 2
MaxPage == 2
\* chunkText's chunkSize (2000 in the source), scaled to the text lengths
ChunkSize == 2
\* the stored preview length (500 in the source), scaled likewise
PreviewLen == 2
\* the preview length of the /process response (200 in the source), scaled
RoutePreviewLen == 1
\* the documented maximum of the listing's limit (100), scaled to MaxLimit
DocumentedMaxLimit == 1
\* longest text and largest chunk size of the calls of chunkText that are
\* looked at on their own
MaxChunkTextLen == 4
MaxChunkSize == 5

(***************************************************************************)
(* Inputs.                                                                 *)
(***************************************************************************)
Letters == <<"a", "b", "c", "d", "e", "f", "g", "h">>

\* the texts a file can hold: the empty text and the first MaxTextLen
\* characters of Letters
Texts == {SubSeq(Letters, 1, n) : n \in {0, MaxTextLen}}

\* what a caller passes as filename: none, a file that is not in ./uploads,
\* and two files that are
Filenames == {"", "missing.pdf", "a.txt", "b.bin"}

\* the files present in ./uploads when the server starts
Uploads == {"a.txt", "b.bin"}

\* the query of a body that carries none (undefined after destructuring)
NoQuery == "<undefined>"

\* what a caller passes as query: none, the empty string, a text
Queries == {NoQuery, "", "q"}

\* the vectors the Embedding Provider answers with
EmbVecs == {<<1, 0>>, <<0, 1>>, <<1>>}

(***************************************************************************)
(* Arithmetic on JavaScript numbers.                                       *)
(***************************************************************************)
NaN == [num |-> 0, den |-> 0]

IsNaN(x) == x.den = 0

Abs(n) == IF n < 0 THEN -n ELSE n

RECURSIVE GCD(_, _)
GCD(a, b) == IF b = 0 THEN a ELSE GCD(b, a % b)

Rat(n, d) ==
    LET g == GCD(Abs(n), d)
    IN  [num |-> n \div g, den |-> d \div g]

Num(n) == [num |-> n, den |-> 1]

Sign(n) == IF n < 0 THEN -1 ELSE IF n > 0 THEN 1 ELSE 0

RECURSIVE Pow2(_)
Pow2(n) == IF n = 0 THEN 1 ELSE 2 * Pow2(n - 1)

\* significant bits of a JavaScript number (53 in IEEE 754 double
\* precision), scaled
F64SigBits == 3

\* (n / d) * (sn / sd) for n / d > 0, with n / d rounded to F64SigBits
\* significant bits, ties to even: n / d is first brought between SigLow
\* and SigHigh by powers of two
SigLow == Pow2(F64SigBits - 1)

SigHigh == Pow2(F64SigBits)

RECURSIVE RoundSig(_, _, _, _)
RoundSig(n, d, sn, sd) ==
    IF n < SigLow * d THEN RoundSig(2 * n, d, sn, 2 * sd)
    ELSE IF n >= SigHigh * d THEN RoundSig(n, 2 * d, 2 * sn, sd)
    ELSE LET q == n \div d
             r == n % d
             m == IF 2 * r > d \/ (2 * r = d /\ q % 2 = 1) THEN q + 1 ELSE q
         IN  Rat(m * sn, sd)

\* the double nearest to the real x: every arithmetic operation of
\* JavaScript rounds its exact result this way (a whole or half number
\* below SigHigh fits the significand and is a double as it is)
double(x) ==
    IF IsNaN(x) \/ (Abs(x.num) < SigHigh /\ x.den \in {1, 2}) THEN x
    ELSE LET m == RoundSig(Abs(x.num), x.den, 1, 1)
         IN  [num |-> Sign(x.num) * m.num, den |-> m.den]

\* sum + emb[i] of the reduce: emb[i] is undefined beyond the vector's end
JsAdd(x, y) ==
    IF IsNaN(x) \/ IsNaN(y) THEN NaN
    ELSE double(Rat(x.num * y.den + y.num * x.den, x.den * y.den))

\* sum / embeddings.length
JsDiv(x, n) ==
    IF IsNaN(x) \/ n = 0 THEN NaN ELSE double(Rat(x.num, x.den * n))

RLeq(x, y) == x.num * y.den <= y.num * x.den

RLess(x, y) == x.num * y.den < y.num * x.den

Min(a, b) == IF a < b THEN a ELSE b

Max(a, b) == IF a > b THEN a ELSE b

\* emb[i] of a provider vector: the number, or undefined (NaN once added)
At(emb, i) == IF i \in DOMAIN emb THEN Num(emb[i]) ELSE NaN

(***************************************************************************)
(* EmbeddingService (pure parts).                                          *)
(***************************************************************************)
\* chunkText(text, chunkSize): for (i = 0; i < text.length; i += chunkSize)
\* chunks.push(text.slice(i, i + chunkSize)); i is the 0-based start index
RECURSIVE chunkTextFrom(_, _, _)
chunkTextFrom(text, chunkSize, i) ==
    IF i < Len(text)
    THEN <<SubSeq(text, i + 1, Min(i + chunkSize, Len(text)))>>
             \o chunkTextFrom(text, chunkSize, i + chunkSize)
    ELSE <<>>

\* (variant) the loop starts at i = 1
chunkTextFromOne(text, chunkSize) == chunkTextFrom(text, chunkSize, 1)

chunkText(text, chunkSize) == chunkTextFrom(text, chunkSize, 0)

\* embeddings.reduce((sum, emb) => sum + emb[i], 0)
RECURSIVE ReduceSum(_, _)
ReduceSum(embeddings, i) ==
    IF embeddings = <<>> THEN Num(0)
    ELSE JsAdd(ReduceSum(SubSeq(embeddings, 1, Len(embeddings) - 1), i),
               At(embeddings[Len(embeddings)], i))

\* embeddings[0].map((_, i) => reduce(...) / embeddings.length)
avgEmbedding(embeddings) ==
    [i \in 1..Len(embeddings[1]) |->
        JsDiv(ReduceSum(embeddings, i), Len(embeddings))]

\* the value generateEmbeddingsForDocument returns once every chunk has
\* been embedded: null for no chunks, the average otherwise
Null == [null |-> TRUE, vec |-> <<>>]

\* (variant) without the test for no embeddings: an empty vector comes back
generateEmbeddingsResultNoTest(embeddings) ==
    [null |-> FALSE,
     vec |-> IF Len(embeddings) = 0 THEN <<>> ELSE avgEmbedding(embeddings)]

generateEmbeddingsResult(embeddings) ==
    IF Len(embeddings) = 0 THEN Null
    ELSE [null |-> FALSE, vec |-> avgEmbedding(embeddings)]

(***************************************************************************)
(* Float32Array and the BLOB encoding.                                     *)
(***************************************************************************)
\* fraction bits kept by the single-precision conversion (scaled)
F32FracBits == 4

\* conversion of a double to single precision: round to the nearest
\* representable value; NaN stays NaN
fround(x) ==
    IF IsNaN(x) THEN NaN
    ELSE LET g == Pow2(F32FracBits)
         IN  Rat((2 * x.num * g + x.den) \div (2 * x.den), g)

\* new Float32Array(embedding) over an array of numbers
Float32Array(v) == [i \in DOMAIN v |-> fround(v[i])]

\* a provider vector (integers) as an array of numbers
NumVec(emb) == [i \in DOMAIN emb |-> Num(emb[i])]

(***************************************************************************)
(* sqlite-vec: vec_distance_cosine.                                        *)
(***************************************************************************)
RECURSIVE SumSeq(_)
SumSeq(s) == IF s = <<>> THEN 0 ELSE s[1] + SumSeq(Tail(s))

RECURSIVE DenProduct(_)
DenProduct(v) == IF v = <<>> THEN 1 ELSE v[1].den * DenProduct(Tail(v))

HasNaN(v) == \E i \in DOMAIN v : IsNaN(v[i])

\* v multiplied by the product of its denominators: an integer vector of
\* the same direction (cosine does not depend on a positive factor)
Cleared(v) ==
    LET D == DenProduct(v)
    IN  [i \in DOMAIN v |-> v[i].num * (D \div v[i].den)]

Dot(a, b) == SumSeq([i \in DOMAIN a |-> a[i] * b[i]])

\* The cosine of the angle of a and b, given as sign(cos) * cos^2, an
\* exact rational in [-1, 1] that orders as the cosine does; NaN when a
\* component is NaN or a norm is zero (0/0).  The vectors have one length.
CosineKey(a, b) ==
    IF HasNaN(a) \/ HasNaN(b) THEN NaN
    ELSE LET ia == Cleared(a)
             ib == Cleared(b)
             x  == Dot(ia, ib)
             A  == Dot(ia, ia)
             B  == Dot(ib, ib)
         IN  IF A = 0 \/ B = 0 THEN NaN
             ELSE Rat(Sign(x) * x * x, A * B)

\* vec_distance_cosine raises an error for vectors of different lengths
DimensionMismatch(a, b) == Len(a) # Len(b)

\* the distance column: 1 - cosine, kept as the cosine key it is computed
\* from; a NaN result is stored by SQLite as NULL
SqlNull == [null |-> TRUE, cos |-> NaN]

vec_distance_cosine(a, b) ==
    LET c == CosineKey(a, b)
    IN  IF IsNaN(c) THEN SqlNull ELSE [null |-> FALSE, cos |-> c]

\* d1 < d2 in SQLite's ORDER BY: NULL sorts before every number, and
\* 1 - c1 < 1 - c2 exactly when c1 > c2
DistanceLess(d1, d2) ==
    IF d1.null THEN ~d2.null
    ELSE IF d2.null THEN FALSE
    ELSE RLess(d2.cos, d1.cos)

\* 1 - row.distance in JavaScript: 1 - null is 1; otherwise the cosine
similarityOf(distance) ==
    IF distance.null THEN Num(1) ELSE distance.cos

(***************************************************************************)
(* SQL: ORDER BY, LIMIT and OFFSET.                                        *)
(***************************************************************************)
\* x sorts strictly before y under the ORDER BY clause of the query
RowLess(order, x, y) ==
    IF order = "distance ASC" THEN DistanceLess(x.distance, y.distance)
    ELSE y.upload_date < x.upload_date    \* "upload_date DESC"

\* ORDER BY of SQLite's sorter: rows with equal keys keep their scan order
RECURSIVE OrderBy(_, _)
OrderBy(rows, order) ==
    IF rows = <<>> THEN <<>>
    ELSE LET n      == Len(rows)
             x      == rows[n]
             sorted == OrderBy(SubSeq(rows, 1, n - 1), order)
             k      == Cardinality({i \in DOMAIN sorted :
                                       ~RowLess(order, x, sorted[i])})
         IN  SubSeq(sorted, 1, k) \o <<x>> \o SubSeq(sorted, k + 1, n - 1)

\* LIMIT ? OFFSET ?: a negative limit is no limit, a negative offset is 0
LimitOffset(rows, limit, offset) ==
    LET off == Max(offset, 0)
        lim == IF limit < 0 THEN Len(rows) ELSE limit
    IN  SubSeq(rows, off + 1, Min(Len(rows), off + lim))

(***************************************************************************)
(* State.                                                                  *)
(***************************************************************************)
VARIABLES
    documents,   \* the documents table: rows in rowid order
    embeddings,  \* the embeddings table: rows in rowid order
    dbQueue,     \* INSERTs into embeddings handed to db.run, not yet executed
    reqs,        \* the HTTP requests in arrival order, each with its position
    ingested,    \* per document id: how the ingestion that created it went
    now,         \* datetime("now") of the database, in seconds
    uploadDir,   \* the files in ./uploads, by name
    call         \* a call of a pure function: its arguments and its result

vars == <<documents, embeddings, dbQueue, reqs, ingested, now, uploadDir, call>>

\* no call of a pure function is looked at
NoCall == [fn |-> "none"]

Init ==
    /\ documents = <<>>
    /\ embeddings = <<>>
    /\ dbQueue = <<>>
    /\ reqs = <<>>
    /\ ingested = <<>>
    /\ now = 0
    /\ uploadDir = Uploads
    /\ call = NoCall

\* a request as it arrives: nothing computed, no response sent (status 0)
NewRequest(kind, pc) ==
    [kind |-> kind, pc |-> pc,
     filename |-> "", content |-> <<>>, contentPreview |-> <<>>,
     docId |-> 0, chunks |-> <<>>, embs |-> <<>>, calls |-> 0,
     extractError |-> FALSE, embeddingError |-> FALSE,
     embedding |-> Null,
     query |-> "", qvec |-> <<>>, limit |-> 0, page |-> 0, offset |-> 0,
     status |-> 0, error |-> "", message |-> "",
     documentId |-> 0, preview |-> <<>>, results |-> <<>>]

\* the record of a request whose response went out in an earlier step
Closed == NewRequest("closed", "closed")

\* the requests without those answered before this step
Open(rs) == [i \in DOMAIN rs |-> IF rs[i].pc = "done" THEN Closed ELSE rs[i]]

\* the number of requests that wait for an answer
InFlight == Cardinality({i \in DOMAIN reqs : reqs[i].pc \notin {"done", "closed"}})

\* a further request can arrive
Arrival == Len(reqs) < MaxReqs /\ InFlight < MaxInFlight

\* res.status(code).json({ error })
ErrorResponse(req, code, text) ==
    [req EXCEPT !.pc = "done", !.status = code, !.error = text]

(***************************************************************************)
(* TextExtractionService.extractText.                                      *)
(***************************************************************************)
\* path.extname(filePath).toLowerCase()
extname(filename) ==
    CASE filename = "a.txt" -> ".txt"
      [] filename = "b.bin" -> ".bin"
      [] filename = "missing.pdf" -> ".pdf"
      [] OTHER -> ""

SupportedExts == {".txt", ".pdf", ".docx", ".xlsx", ".xls", ".csv"}

ExtractFailure == [ok |-> FALSE, text |-> <<>>]

\* what extractText can come back with: the text of the file, or the
\* error thrown by the reader or for an unsupported extension
extractText(filename) ==
    IF extname(filename) \in SupportedExts
    THEN {[ok |-> TRUE, text |-> t] : t \in Texts} \cup {ExtractFailure}
    ELSE {ExtractFailure}

(***************************************************************************)
(* DocumentService.saveDocument and router.post('/process').               *)
(***************************************************************************)
\* content.substring(0, 500) + (content.length > 500 ? '...' : '')
contentPreview(content) ==
    SubSeq(content, 1, Min(PreviewLen, Len(content)))
        \o (IF Len(content) > PreviewLen THEN <<"...">> ELSE <<>>)

\* result.content.substring(0, 200) + '...'
routePreview(content) ==
    SubSeq(content, 1, Min(RoutePreviewLen, Len(content))) \o <<"...">>

\* the id AUTOINCREMENT gives the next row of a table that never deletes
NextRowId(table) == Len(table) + 1

\* (variant) an id counted on the side instead of read from the statement
lastIDCounted(table) == Len(table) + 1

\* this.lastID in the callback of the INSERT: the id of the row it added
lastID(table) == table[Len(table)].id

\* (variant) the extraction error is logged and ingestion goes on with an
\* empty text
OnExtractionErrorContinue(req) ==
    [req EXCEPT !.extractError = TRUE, !.pc = "insertDocument"]

\* (variant) the extraction error is swallowed: the promise of saveDocument
\* is never settled
OnExtractionErrorHang(req) ==
    [req EXCEPT !.extractError = TRUE, !.pc = "hung"]

\* catch (error) { reject(error) } around extractText, then the route's
\* catch: 500
OnExtractionError(req) ==
    ErrorResponse([req EXCEPT !.extractError = TRUE], 500,
                  "Failed to process document")

\* resolve({ id: docId, content }) and the route's res.json
ProcessedResponse(req) ==
    [req EXCEPT !.pc = "done", !.status = 200,
                !.message = "Document processed and indexed successfully",
                !.documentId = req.docId,
                !.preview = routePreview(req.content)]

\* (variant) the embedding error rejects the ingestion
OnEmbeddingErrorReject(req) ==
    ErrorResponse([req EXCEPT !.embeddingError = TRUE], 500,
                  "Failed to process document")

\* (variant) the vectors of the chunks embedded before the failure are
\* averaged
OnEmbeddingErrorPartial(req) ==
    ProcessedResponse([req EXCEPT !.embeddingError = TRUE,
                                  !.embedding = generateEmbeddingsResult(req.embs)])

\* catch (embeddingError): 'Still resolve, embedding failed'
OnEmbeddingError(req) ==
    ProcessedResponse([req EXCEPT !.embeddingError = TRUE])

\* (variant) the vector goes under the id of the newest document row
EmbeddingInsertLatestDoc(req) ==
    [doc_id |-> documents[Len(documents)].id,
     vector |-> Float32Array(req.embedding.vec)]

\* the statement db.run is given when the embedding is not null
EmbeddingInsert(req) ==
    [doc_id |-> req.docId, vector |-> Float32Array(req.embedding.vec)]

\* the entry of ingested for a request that has just been answered
Ingested(req, vecWrite) ==
    [status |-> req.status, embeddingError |-> req.embeddingError,
     chunks |-> Len(req.chunks), calls |-> req.calls, vecWrite |-> vecWrite]

\* (variant) the check of the file's existence is left out
existsSyncSkipped(filename) == TRUE

\* fs.existsSync(path.join('./uploads', filename))
existsSync(filename) == filename \in uploadDir

\* router.post('/process') up to the call of saveDocument
ProcessRequest(filename) ==
    /\ Arrival
    /\ LET req == [NewRequest("process", "extract") EXCEPT !.filename = filename]
       IN  reqs' = Append(Open(reqs),
                IF filename = "" THEN ErrorResponse(req, 400, "filename is required")
                ELSE IF ~existsSync(filename)
                     THEN ErrorResponse(req, 404, "File not found")
                     ELSE req)
    /\ UNCHANGED <<documents, embeddings, dbQueue, ingested, now>>
    /\ UNCHANGED <<uploadDir, call>>

\* await extractText(filePath) returns or throws; on return the preview is
\* computed and the INSERT INTO documents is handed to db.run
ExtractText(r) ==
    /\ reqs[r].pc = "extract"
    /\ \E out \in extractText(reqs[r].filename) :
          reqs' = [Open(reqs) EXCEPT ![r] =
              IF out.ok
              THEN [@ EXCEPT !.pc = "insertDocument", !.content = out.text,
                             !.contentPreview = contentPreview(out.text)]
              ELSE OnExtractionError(@)]
    /\ UNCHANGED <<documents, embeddings, dbQueue, ingested, now>>
    /\ UNCHANGED <<uploadDir, call>>

\* what follows the last chunk's embedding (or no chunk at all) without
\* another await: the average, db.run for the embedding row, resolve and
\* the route's res.json
AfterChunks(r, req) ==
    LET e    == generateEmbeddingsResult(req.embs)
        done == ProcessedResponse([req EXCEPT !.embedding = e])
    IN  /\ reqs' = [Open(reqs) EXCEPT ![r] = done]
        /\ IF e.null
           THEN /\ ingested' = [ingested EXCEPT ![req.docId] = Ingested(done, "none")]
                /\ UNCHANGED dbQueue
           ELSE /\ ingested' = [ingested EXCEPT ![req.docId] = Ingested(done, "queued")]
                /\ dbQueue' = Append(dbQueue, EmbeddingInsert(done))

\* (variant) a document of the same filename is replaced by the new row
InsertOrReplaceDocument(docs, row) ==
    SelectSeq(docs, LAMBDA d : d.filename # row.filename) \o <<row>>

\* INSERT INTO documents (filename, content_preview) VALUES (?, ?)
InsertIntoDocuments(docs, row) == Append(docs, row)

\* (variant) the chunks are embedded although the INSERT failed
OnInsertErrorEmbedAnyway(req) ==
    [req EXCEPT !.pc = "embed",
                !.chunks = chunkText(req.content, ChunkSize),
                !.calls = 1]

\* if (err) reject(err) in the callback of the INSERT, then the route's
\* catch: 500
OnInsertError(req) == ErrorResponse(req, 500, "Failed to process document")

\* (variant) the chunks are embedded at the same time (Promise.all)
callsIssuedAllAtOnce(chunks, answered) == Len(chunks)

\* the number of calls of generateEmbedding that the loop
\* for (const chunk of chunks) { await generateEmbedding(chunk) } has made
\* when `answered` of them have returned: the next call follows the answer
\* to the one before
callsIssued(chunks, answered) == Min(answered + 1, Len(chunks))

\* the callback of INSERT INTO documents: err rejects (500); otherwise the
\* row exists, docId = this.lastID and the document's chunks are embedded:
\* the call for the first chunk goes out, or, with no chunk, the ingestion
\* finishes
InsertDocument(r) ==
    /\ reqs[r].pc = "insertDocument"
    /\ \/ /\ reqs' = [Open(reqs) EXCEPT ![r] = OnInsertError(@)]
          /\ UNCHANGED <<documents, dbQueue, ingested, now>>
       \/ \E t \in {now, Min(now + 1, MaxClock)} :
            LET row  == [id |-> NextRowId(documents),
                         filename |-> reqs[r].filename,
                         content_preview |-> reqs[r].contentPreview,
                         upload_date |-> t]
                docs == InsertIntoDocuments(documents, row)
                chks == chunkText(reqs[r].content, ChunkSize)
                req  == [reqs[r] EXCEPT
                            !.pc = "embed", !.docId = lastID(docs),
                            !.chunks = chks,
                            !.calls = callsIssued(chks, 0)]
                ing  == Append(ingested, Ingested(req, "none"))
                e    == generateEmbeddingsResult(req.embs)
                done == ProcessedResponse([req EXCEPT !.embedding = e])
            IN  /\ documents' = docs
                /\ now' = t
                /\ IF req.chunks = <<>>
                   THEN /\ reqs' = [Open(reqs) EXCEPT ![r] = done]
                        /\ IF e.null
                           THEN /\ ingested' = Append(ingested,
                                                      Ingested(done, "none"))
                                /\ UNCHANGED dbQueue
                           ELSE /\ ingested' = Append(ingested,
                                                      Ingested(done, "queued"))
                                /\ dbQueue' = Append(dbQueue, EmbeddingInsert(done))
                   ELSE /\ reqs' = [Open(reqs) EXCEPT ![r] = req]
                        /\ ingested' = ing
                        /\ UNCHANGED dbQueue
    /\ UNCHANGED embeddings
    /\ UNCHANGED <<uploadDir, call>>

\* the Embedding Provider answers the call for the next chunk
\* (generateEmbedding): a vector, after which the call for the chunk that
\* follows goes out, or a failure ('Failed to generate embedding'), which
\* saveDocument catches
EmbedChunk(r) ==
    /\ reqs[r].pc = "embed"
    /\ Len(reqs[r].embs) < Len(reqs[r].chunks)
    /\ LET called == reqs[r]
       IN  \/ /\ reqs' = [Open(reqs) EXCEPT ![r] = OnEmbeddingError(called)]
              /\ ingested' = [ingested EXCEPT ![called.docId] =
                                 Ingested(OnEmbeddingError(called), "none")]
              /\ UNCHANGED dbQueue
           \/ \E v \in EmbVecs :
                LET req == [called EXCEPT
                               !.embs = Append(@, v),
                               !.calls = callsIssued(called.chunks,
                                                     Len(called.embs) + 1)]
                IN  IF Len(req.embs) = Len(req.chunks)
                    THEN AfterChunks(r, req)
                    ELSE /\ reqs' = [Open(reqs) EXCEPT ![r] = req]
                         /\ UNCHANGED <<dbQueue, ingested>>
    /\ UNCHANGED <<documents, embeddings, now>>
    /\ UNCHANGED <<uploadDir, call>>

\* the database executes one queued INSERT INTO embeddings and calls back:
\* the row is added, or err is logged ('Error saving embedding')
EmbeddingInsertDone(k) ==
    /\ k \in DOMAIN dbQueue
    /\ LET w == dbQueue[k]
       IN  \/ /\ embeddings' = Append(embeddings,
                     [id |-> NextRowId(embeddings), doc_id |-> w.doc_id,
                      vector |-> w.vector])
              /\ ingested' = [ingested EXCEPT ![w.doc_id].vecWrite = "stored"]
           \/ /\ ingested' = [ingested EXCEPT ![w.doc_id].vecWrite = "failed"]
              /\ UNCHANGED embeddings
    /\ dbQueue' = SubSeq(dbQueue, 1, k - 1) \o SubSeq(dbQueue, k + 1, Len(dbQueue))
    /\ reqs' = Open(reqs)
    /\ UNCHANGED <<documents, now>>
    /\ UNCHANGED <<uploadDir, call>>

(***************************************************************************)
(* DocumentService.searchDocuments and router.post('/search').             *)
(***************************************************************************)
\* (variant) pages counted from 0
searchOffsetFromZero(page, limit) == page * limit

\* const offset = (page - 1) * limit
searchOffset(page, limit) == (page - 1) * limit

\* (variant) a join without its ON condition
MatchingEmbeddingsCross(d, embs) == embs

\* FROM documents d JOIN embeddings e ON d.id = e.doc_id: the pairs of one
\* document row with the embedding rows, in rowid order
MatchingEmbeddings(d, embs) == SelectSeq(embs, LAMBDA e : e.doc_id = d.id)

RECURSIVE JoinRows(_, _)
JoinRows(docs, embs) ==
    IF docs = <<>> THEN <<>>
    ELSE LET d == docs[1]
             m == MatchingEmbeddings(d, embs)
         IN  [i \in DOMAIN m |-> [d |-> d, e |-> m[i]]] \o JoinRows(Tail(docs), embs)

\* the query fails as a whole when vec_distance_cosine raises on a row
SearchSqlError(docs, embs, queryBuffer) ==
    \E i \in DOMAIN JoinRows(docs, embs) :
        DimensionMismatch(JoinRows(docs, embs)[i].e.vector, queryBuffer)

\* SELECT d.id, d.filename, d.content_preview, d.upload_date,
\*        vec_distance_cosine(e.vector, ?) as distance ... ORDER BY distance ASC
SearchRanked(docs, embs, queryBuffer) ==
    LET j == JoinRows(docs, embs)
    IN  OrderBy([i \in DOMAIN j |->
                    [id |-> j[i].d.id, filename |-> j[i].d.filename,
                     content_preview |-> j[i].d.content_preview,
                     upload_date |-> j[i].d.upload_date,
                     distance |-> vec_distance_cosine(j[i].e.vector, queryBuffer)]],
                "distance ASC")

\* ... LIMIT ? OFFSET ?
SearchSql(docs, embs, queryBuffer, limit, offset) ==
    LimitOffset(SearchRanked(docs, embs, queryBuffer), limit, offset)

\* rows.map(row => ({ id, filename, preview, uploadDate, similarity }))
SearchResults(rows) ==
    [i \in DOMAIN rows |->
        [id |-> rows[i].id, filename |-> rows[i].filename,
         preview |-> rows[i].content_preview,
         uploadDate |-> rows[i].upload_date,
         similarity |-> similarityOf(rows[i].distance)]]

\* (variant) only a body without query is turned down
NotQueryUndefinedOnly(query) == query = NoQuery

\* !query
NotQuery(query) == query \in {NoQuery, ""}

\* router.post('/search') up to and with the call of generateEmbedding
SearchRequest(query, limit, page) ==
    /\ Arrival
    /\ LET req == [NewRequest("search", "queryEmbedding") EXCEPT
                      !.query = query, !.limit = limit, !.page = page]
       IN  reqs' = Append(Open(reqs),
                IF NotQuery(query) THEN ErrorResponse(req, 400, "Query is required")
                ELSE [req EXCEPT !.offset = searchOffset(page, limit),
                                 !.calls = 1])
    /\ UNCHANGED <<documents, embeddings, dbQueue, ingested, now>>
    /\ UNCHANGED <<uploadDir, call>>

\* (variant) the failure is swallowed and the store is searched without a
\* probe vector
OnQueryEmbeddingErrorSearchAnyway(req) == [req EXCEPT !.pc = "searchQuery"]

\* generateEmbedding throws: catch (error) { reject(error) }, then the
\* route's catch: 500
OnQueryEmbeddingError(req) ==
    ErrorResponse(req, 500, "Failed to perform search")

\* the Embedding Provider answers the call for the query: the probe vector
\* goes to db.all, or the failure rejects (500)
QueryEmbedding(r) ==
    /\ reqs[r].pc = "queryEmbedding"
    /\ LET called == reqs[r]
       IN  \/ reqs' = [Open(reqs) EXCEPT ![r] = OnQueryEmbeddingError(called)]
           \/ \E v \in EmbVecs :
                reqs' = [Open(reqs) EXCEPT ![r] =
                    [called EXCEPT !.pc = "searchQuery",
                                   !.qvec = Float32Array(NumVec(v))]]
    /\ UNCHANGED <<documents, embeddings, dbQueue, ingested, now>>
    /\ UNCHANGED <<uploadDir, call>>

\* the callback of db.all: err rejects (500), rows are mapped and sent
SearchQuery(r) ==
    /\ reqs[r].pc = "searchQuery"
    /\ \/ reqs' = [Open(reqs) EXCEPT ![r] =
              ErrorResponse(@, 500, "Failed to perform search")]
       \/ /\ ~SearchSqlError(documents, embeddings, reqs[r].qvec)
          /\ reqs' = [Open(reqs) EXCEPT ![r] =
                [reqs[r] EXCEPT
                    !.pc = "done", !.status = 200,
                    !.results = SearchResults(SearchSql(documents, embeddings,
                        reqs[r].qvec, reqs[r].limit, reqs[r].offset))]]
    /\ UNCHANGED <<documents, embeddings, dbQueue, ingested, now>>
    /\ UNCHANGED <<uploadDir, call>>

(***************************************************************************)
(* router.get('/documents').                                               *)
(***************************************************************************)
\* const offset = (page - 1) * parseInt(limit), for limit and page given as
\* decimal integers in the query string
listOffset(page, limit) == (page - 1) * limit

\* SELECT id, filename, content_preview, upload_date FROM documents
\* ORDER BY upload_date DESC LIMIT ? OFFSET ?
ListSql(docs, limit, offset) ==
    LimitOffset(OrderBy(docs, "upload_date DESC"), limit, offset)

\* documents.map(doc => ({ id, filename, preview, uploadDate }))
ListResults(rows) ==
    [i \in DOMAIN rows |->
        [id |-> rows[i].id, filename |-> rows[i].filename,
         preview |-> rows[i].content_preview,
         uploadDate |-> rows[i].upload_date]]

\* router.get('/documents') up to db.all
ListRequest(limit, page) ==
    /\ Arrival
    /\ reqs' = Append(Open(reqs), [NewRequest("list", "listQuery") EXCEPT
                                !.limit = limit, !.page = page,
                                !.offset = listOffset(page, limit)])
    /\ UNCHANGED <<documents, embeddings, dbQueue, ingested, now>>
    /\ UNCHANGED <<uploadDir, call>>

\* the callback of db.all: err rejects (500), rows are mapped and sent
ListQuery(r) ==
    /\ reqs[r].pc = "listQuery"
    /\ \/ reqs' = [Open(reqs) EXCEPT ![r] =
              ErrorResponse(@, 500, "Failed to list documents")]
       \/ reqs' = [Open(reqs) EXCEPT ![r] =
              [reqs[r] EXCEPT
                  !.pc = "done", !.status = 200,
                  !.results = ListResults(ListSql(documents, reqs[r].limit,
                                                  reqs[r].offset))]]
    /\ UNCHANGED <<documents, embeddings, dbQueue, ingested, now>>
    /\ UNCHANGED <<uploadDir, call>>

(***************************************************************************)
(* router.post('/upload') behind multer's upload.single('file').           *)
(*                                                                         *)
(* The specification UploadSpec is that of the upload endpoint alone, on   *)
(* an empty ./uploads: each request is answered in the step of its         *)
(* arrival.  now is Date.now() here.                                       *)
(***************************************************************************)
\* the names and the MIME types of the files that callers send
OriginalNames == {"a.txt", "b.pdf", "c.docx", "d.exe", "e.txtx", "f", "G.PDF"}

MimeTypes == {"text/plain",
              "application/pdf",
              "application/octet-stream",
              "application/vnd.openxmlformats-officedocument.wordprocessingml.document"}

\* the characters of these strings
Chars(s) ==
    CASE s = "a.txt" ->
          <<"a", ".", "t", "x", "t">>
      [] s = "b.pdf" ->
          <<"b", ".", "p", "d", "f">>
      [] s = "c.docx" ->
          <<"c", ".", "d", "o", "c", "x">>
      [] s = "d.exe" ->
          <<"d", ".", "e", "x", "e">>
      [] s = "e.txtx" ->
          <<"e", ".", "t", "x", "t", "x">>
      [] s = "f" ->
          <<"f">>
      [] s = "G.PDF" ->
          <<"G", ".", "P", "D", "F">>
      [] s = "text/plain" ->
          <<"t", "e", "x", "t", "/", "p", "l", "a", "i", "n">>
      [] s = "application/pdf" ->
          <<"a", "p", "p", "l", "i", "c", "a", "t", "i", "o", "n", "/",
            "p", "d", "f">>
      [] s = "application/octet-stream" ->
          <<"a", "p", "p", "l", "i", "c", "a", "t", "i", "o", "n", "/",
            "o", "c", "t", "e", "t", "-", "s", "t", "r", "e", "a", "m">>
      [] s = "application/vnd.openxmlformats-officedocument.wordprocessingml.document" ->
          <<"a", "p", "p", "l", "i", "c", "a", "t", "i", "o", "n", "/",
            "v", "n", "d", ".", "o", "p", "e", "n", "x", "m", "l", "f",
            "o", "r", "m", "a", "t", "s", "-", "o", "f", "f", "i", "c",
            "e", "d", "o", "c", "u", "m", "e", "n", "t", ".", "w", "o",
            "r", "d", "p", "r", "o", "c", "e", "s", "s", "i", "n", "g",
            "m", "l", ".", "d", "o", "c", "u", "m", "e", "n", "t">>
      [] OTHER -> <<>>

\* String.prototype.toLowerCase, on the letters of the names
toLowerCase(cs) ==
    [i \in DOMAIN cs |->
        CASE cs[i] = "G" -> "g" [] cs[i] = "P" -> "p"
          [] cs[i] = "D" -> "d" [] cs[i] = "F" -> "f"
          [] OTHER -> cs[i]]

\* path.extname of a name without directories: from the last dot to the
\* end; empty when there is no dot or the name starts with its only dot
pathExtname(cs) ==
    LET dots == {i \in DOMAIN cs : cs[i] = "."}
    IN  IF dots = {} THEN <<>>
        ELSE LET last == CHOOSE i \in dots : \A j \in dots : j <= i
             IN  IF last = 1 THEN <<>> ELSE SubSeq(cs, last, Len(cs))

\* const allowedTypes = /txt|pdf|docx|xlsx|csv/
allowedTypes ==
    {<<"t", "x", "t">>, <<"p", "d", "f">>, <<"d", "o", "c", "x">>,
     <<"x", "l", "s", "x">>, <<"c", "s", "v">>}

\* RegExp.prototype.test for an alternation of literals: some alternative
\* occurs somewhere in the string
RegExpTest(alternatives, cs) ==
    \E a \in alternatives :
        \E i \in 1..(Len(cs) - Len(a) + 1) : SubSeq(cs, i, i + Len(a) - 1) = a

\* multer's fileFilter: cb(null, true), or cb(new Error('Invalid file type...'))
fileFilter(file) ==
    LET ext      == toLowerCase(pathExtname(Chars(file.originalname)))
        extname_ == RegExpTest(allowedTypes, ext)
        mimetype == \/ file.mimetype = "text/plain"
                    \/ RegExpTest(allowedTypes, Chars(file.mimetype))
    IN  extname_ /\ (mimetype \/ ext = <<".", "t", "x", "t">>)

\* a request without a file part
NoFile == [present |-> FALSE, originalname |-> "", mimetype |-> "",
           oversize |-> FALSE]

\* what a caller sends to /upload: nothing, or a file, which may be larger
\* than limits.fileSize (10 MB)
UploadFiles ==
    {NoFile} \cup
    {[present |-> TRUE, originalname |-> n, mimetype |-> m, oversize |-> o] :
        n \in OriginalNames, m \in MimeTypes, o \in BOOLEAN}

\* diskStorage's filename: Date.now() + '-' + file.originalname
storageFilename(t, file) == [time |-> t, originalname |-> file.originalname]

\* an upload request with its answer
UploadResponse(file, status, error, message, filename) ==
    [kind |-> "upload", pc |-> "done", file |-> file,
     status |-> status, error |-> error, message |-> message,
     stored |-> filename # {},
     filename |-> filename,
     fileUrl |-> [dir |-> IF filename = {} THEN "" ELSE "/uploads/",
                  filename |-> filename]]

\* the error handling middleware of the server, reached through next(err)
ErrorMiddleware(file) ==
    UploadResponse(file, 500, "Internal Server Error", "", {})

\* POST /api/upload: multer filters the file, writes it to ./uploads
\* unless it is too large, and the route answers
UploadRequest(file) ==
    /\ Arrival
    /\ IF ~file.present
       THEN /\ reqs' = Append(Open(reqs),
                    UploadResponse(file, 400, "No file uploaded", "", {}))
            /\ UNCHANGED <<uploadDir, now>>
       ELSE IF ~fileFilter(file) \/ file.oversize
       THEN /\ reqs' = Append(Open(reqs), ErrorMiddleware(file))
            /\ UNCHANGED <<uploadDir, now>>
       ELSE \E t \in {now, Min(now + 1, MaxClock)} :
                /\ now' = t
                /\ uploadDir' = uploadDir \cup {storageFilename(t, file)}
                /\ reqs' = Append(Open(reqs),
                       UploadResponse(file, 200, "", "File uploaded successfully",
                                      {storageFilename(t, file)}))
    /\ UNCHANGED <<documents, embeddings, dbQueue, ingested, call>>

UploadInit ==
    /\ documents = <<>>
    /\ embeddings = <<>>
    /\ dbQueue = <<>>
    /\ reqs = <<>>
    /\ ingested = <<>>
    /\ now = 0
    /\ uploadDir = {}
    /\ call = NoCall

UploadNext == \E file \in UploadFiles : UploadRequest(file)

UploadSpec == UploadInit /\ [][UploadNext]_vars

(***************************************************************************)
(* EmbeddingService.chunkText on its own.                                  *)
(*                                                                         *)
(* The specification ChunkSpec draws a text and a chunk size and calls     *)
(* chunkText with them.                                                    *)
(***************************************************************************)
\* the characters of the texts
Alphabet == {"a", "b"}

\* the texts of up to MaxChunkTextLen characters
ChunkTexts == UNION {[1..n -> Alphabet] : n \in 0..MaxChunkTextLen}

\* the calls chunkText(text, chunkSize) before they return
ChunkCalls ==
    {[fn |-> "chunkText", text |-> t, chunkSize |-> c,
      returned |-> FALSE, chunks |-> <<>>] :
        t \in ChunkTexts, c \in 1..MaxChunkSize}

\* the call runs and returns its chunks
ChunkTextCall ==
    /\ call.fn = "chunkText" /\ ~call.returned
    /\ call' = [call EXCEPT !.returned = TRUE,
                            !.chunks = chunkText(call.text, call.chunkSize)]
    /\ UNCHANGED <<documents, embeddings, dbQueue, reqs, ingested, now, uploadDir>>

ChunkInit ==
    /\ documents = <<>>
    /\ embeddings = <<>>
    /\ dbQueue = <<>>
    /\ reqs = <<>>
    /\ ingested = <<>>
    /\ now = 0
    /\ uploadDir = Uploads
    /\ call \in ChunkCalls

ChunkNext == ChunkTextCall

ChunkSpec == ChunkInit /\ [][ChunkNext]_vars

(***************************************************************************)
(* The averaging of generateEmbeddingsForDocument on its own.              *)
(*                                                                         *)
(* The specification MeanSpec draws the vectors the provider answered the  *)
(* chunks of one document with and runs what follows the loop over the     *)
(* chunks.                                                                 *)
(***************************************************************************)
\* the most chunk vectors of one document
MaxMeanChunks == 3

\* the longest chunk vector
MaxMeanDim == 2

\* the numbers in the chunk vectors: 1 is lost when added to SigHigh
MeanValues == {1, SigHigh, -SigHigh}

\* the vectors the provider can answer a chunk with
MeanVecs == UNION {[1..n -> MeanValues] : n \in 1..MaxMeanDim}

\* the states after the loop over the chunks: the vectors collected
MeanCalls ==
    {[fn |-> "generateEmbeddingsForDocument", embeddings |-> e,
      returned |-> FALSE, result |-> Null] :
        e \in UNION {[1..n -> MeanVecs] : n \in 0..MaxMeanChunks}}

\* the rest of generateEmbeddingsForDocument runs and returns
MeanPoolingCall ==
    /\ call.fn = "generateEmbeddingsForDocument" /\ ~call.returned
    /\ call' = [call EXCEPT !.returned = TRUE,
                            !.result = generateEmbeddingsResult(call.embeddings)]
    /\ UNCHANGED <<documents, embeddings, dbQueue, reqs, ingested, now, uploadDir>>

MeanInit ==
    /\ documents = <<>>
    /\ embeddings = <<>>
    /\ dbQueue = <<>>
    /\ reqs = <<>>
    /\ ingested = <<>>
    /\ now = 0
    /\ uploadDir = Uploads
    /\ call \in MeanCalls

MeanNext == MeanPoolingCall

MeanSpec == MeanInit /\ [][MeanNext]_vars

(***************************************************************************)
(* TextExtractionService.extractFromTxt on its own.                        *)
(*                                                                         *)
(* The specification TxtSpec draws the files of a directory, as bytes, and *)
(* a path, and calls extractFromTxt with the path.                         *)
(***************************************************************************)
\* the bytes in the files: space, "a", the two bytes of U+00E9 in UTF-8
\* (0xC3 0xA9) and 0xFF, which no UTF-8 text contains
TxtBytes == {32, 97, 195, 169, 255}

\* the longest file, in bytes
MaxTxtBytes == 3

TxtContents == UNION {[1..n -> TxtBytes] : n \in 0..MaxTxtBytes}

\* the files that exist and the paths a call can name
TxtFiles == {"test.txt", "b.txt"}

TxtPaths == TxtFiles \cup {"missing.txt"}

\* U+FFFD, which the decoder puts for a byte that is not UTF-8
ReplacementChar == 65533

\* a byte 10xxxxxx
IsContinuation(b) == b >= 128 /\ b <= 191

\* buffer.toString('utf8'): the characters (code points) of the bytes; the
\* sequences are those of one byte (0xxxxxxx) and two bytes (110xxxxx
\* 10xxxxxx, from 0xC2), any other byte gives U+FFFD
RECURSIVE Utf8Decode(_)
Utf8Decode(bytes) ==
    IF bytes = <<>> THEN <<>>
    ELSE LET b == Head(bytes)
         IN  IF b < 128 THEN <<b>> \o Utf8Decode(Tail(bytes))
             ELSE IF /\ b >= 194 /\ b <= 223
                     /\ Len(bytes) >= 2 /\ IsContinuation(bytes[2])
                  THEN <<(b - 192) * 64 + (bytes[2] - 128)>>
                           \o Utf8Decode(SubSeq(bytes, 3, Len(bytes)))
                  ELSE <<ReplacementChar>> \o Utf8Decode(Tail(bytes))

\* fs.readFileSync(path, encoding): the decoded content of the file, or
\* the error thrown for a file that does not exist (ENOENT)
readFileSync(files, path, encoding) ==
    IF path \in DOMAIN files
    THEN [threw |-> FALSE,
          value |-> IF encoding = "utf8" THEN Utf8Decode(files[path])
                    ELSE files[path]]
    ELSE [threw |-> TRUE, value |-> <<>>]

\* (variant) the first character of the text is left out
extractFromTxtCut(files, filePath) ==
    LET read == readFileSync(files, filePath, "utf8")
    IN  [state |-> IF read.threw THEN "rejected" ELSE "fulfilled",
         value |-> IF read.value = <<>> THEN <<>> ELSE Tail(read.value),
         readCalls |-> <<[path |-> filePath, encoding |-> "utf8"]>>]

\* async extractFromTxt(filePath) { return fs.readFileSync(filePath, 'utf8') }:
\* the promise it returns, fulfilled with the text or rejected with the
\* error thrown, and the calls of readFileSync it made
extractFromTxt(files, filePath) ==
    LET read == readFileSync(files, filePath, "utf8")
    IN  [state |-> IF read.threw THEN "rejected" ELSE "fulfilled",
         value |-> read.value,
         readCalls |-> <<[path |-> filePath, encoding |-> "utf8"]>>]

\* the calls extractFromTxt(filePath) before they run
TxtCalls ==
    {[fn |-> "extractFromTxt", files |-> f, filePath |-> p,
      returned |-> FALSE,
      result |-> [state |-> "pending", value |-> <<>>, readCalls |-> <<>>]] :
        f \in [TxtFiles -> TxtContents], p \in TxtPaths}

\* the call runs and returns its promise
ExtractFromTxtCall ==
    /\ call.fn = "extractFromTxt" /\ ~call.returned
    /\ call' = [call EXCEPT !.returned = TRUE,
                            !.result = extractFromTxt(call.files, call.filePath)]
    /\ UNCHANGED <<documents, embeddings, dbQueue, reqs, ingested, now, uploadDir>>

TxtInit ==
    /\ documents = <<>>
    /\ embeddings = <<>>
    /\ dbQueue = <<>>
    /\ reqs = <<>>
    /\ ingested = <<>>
    /\ now = 0
    /\ uploadDir = Uploads
    /\ call \in TxtCalls

TxtNext == ExtractFromTxtCall

TxtSpec == TxtInit /\ [][TxtNext]_vars

(***************************************************************************)
(* Specification.                                                          *)
(***************************************************************************)
Next ==
    \/ \E f \in Filenames : ProcessRequest(f)
    \/ \E r \in DOMAIN reqs : ExtractText(r)
    \/ \E r \in DOMAIN reqs : InsertDocument(r)
    \/ \E r \in DOMAIN reqs : EmbedChunk(r)
    \/ \E k \in DOMAIN dbQueue : EmbeddingInsertDone(k)
    \/ \E q \in Queries, l \in 1..MaxLimit, p \in 1..MaxPage : SearchRequest(q, l, p)
    \/ \E r \in DOMAIN reqs : QueryEmbedding(r)
    \/ \E r \in DOMAIN reqs : SearchQuery(r)
    \/ \E l \in 1..MaxLimit, p \in 1..MaxPage : ListRequest(l, p)
    \/ \E r \in DOMAIN reqs : ListQuery(r)

Spec == Init /\ [][Next]_vars

(***************************************************************************)
(* The handlers under fair scheduling.                                     *)
(*                                                                         *)
(* The specification LiveSpec runs the handlers of Spec for MaxLiveReqs    *)
(* requests and states what the event loop and the collaborators give:     *)
(* the Text Extractor, the Embedding Provider and the database answer      *)
(* every call made to them (with a result or with an error), and a         *)
(* continuation that can run does run.                                     *)
(***************************************************************************)
\* the requests of a run of LiveSpec
MaxLiveReqs == 2

\* a further request can arrive in a run of LiveSpec
LiveArrival == Len(reqs) < MaxLiveReqs

LiveNext ==
    \/ LiveArrival /\ \E f \in Filenames : ProcessRequest(f)
    \/ \E r \in DOMAIN reqs : ExtractText(r)
    \/ \E r \in DOMAIN reqs : InsertDocument(r)
    \/ \E r \in DOMAIN reqs : EmbedChunk(r)
    \/ \E k \in DOMAIN dbQueue : EmbeddingInsertDone(k)
    \/ LiveArrival /\ \E q \in Queries, l \in 1..MaxLimit, p \in 1..MaxPage :
                          SearchRequest(q, l, p)
    \/ \E r \in DOMAIN reqs : QueryEmbedding(r)
    \/ \E r \in DOMAIN reqs : SearchQuery(r)
    \/ LiveArrival /\ \E l \in 1..MaxLimit, p \in 1..MaxPage : ListRequest(l, p)
    \/ \E r \in DOMAIN reqs : ListQuery(r)

\* every await of a request is answered and its continuation runs; the
\* database executes every statement handed to db.run
LiveFairness ==
    /\ \A r \in 1..MaxLiveReqs :
          /\ WF_vars(r \in DOMAIN reqs /\ ExtractText(r))
          /\ WF_vars(r \in DOMAIN reqs /\ InsertDocument(r))
          /\ WF_vars(r \in DOMAIN reqs /\ EmbedChunk(r))
          /\ WF_vars(r \in DOMAIN reqs /\ QueryEmbedding(r))
          /\ WF_vars(r \in DOMAIN reqs /\ SearchQuery(r))
          /\ WF_vars(r \in DOMAIN reqs /\ ListQuery(r))
    /\ WF_vars(\E k \in DOMAIN dbQueue : EmbeddingInsertDone(k))

LiveSpec == Init /\ [][LiveNext]_vars /\ LiveFairness

(***************************************************************************)
(* Vocabulary of the properties.                                           *)
(***************************************************************************)
\* request r has just been answered
Answered(r, kind) == reqs[r].kind = kind /\ reqs[r].pc = "done"

\* a vector is stored under document id
HasVector(id) == \E i \in DOMAIN embeddings : embeddings[i].doc_id = id

\* an INSERT of a vector for document id waits in the database queue
VectorQueued(id) == \E k \in DOMAIN dbQueue : dbQueue[k].doc_id = id

\* document id is on some page of GET /api/documents
InListing(id) ==
    \E l \in 1..MaxLimit, p \in 1..Len(documents) :
        \E i \in DOMAIN ListResults(ListSql(documents, l, listOffset(p, l))) :
            ListResults(ListSql(documents, l, listOffset(p, l)))[i].id = id

\* the stored vector of document id
VectorOf(id) ==
    embeddings[CHOOSE i \in DOMAIN embeddings : embeddings[i].doc_id = id].vector

\* the provider answered the chunks of one document with vectors of
\* different lengths
MixedLengths(embs) == \E i, j \in DOMAIN embs : Len(embs[i]) # Len(embs[j])

\* the value SQLite stores for a null parameter
SqlNullText == <<"NULL">>

\* x <= y for distances as numbers: false when either is NaN
DistanceLeq(d1, d2) == ~d1.null /\ ~d2.null /\ RLeq(d2.cos, d1.cos)

\* n / c rounded up
Ceil(n, c) == (n + c - 1) \div c

\* the chunks joined in their order
RECURSIVE Concat(_)
Concat(chunks) ==
    IF chunks = <<>> THEN <<>> ELSE Head(chunks) \o Concat(Tail(chunks))

\* the file types an upload may have: txt, pdf, docx, xlsx, csv
DocumentedExts ==
    {<<".", "t", "x", "t">>, <<".", "p", "d", "f">>,
     <<".", "d", "o", "c", "x">>, <<".", "x", "l", "s", "x">>,
     <<".", "c", "s", "v">>}

\* the file's type is none of them
InvalidType(file) ==
    toLowerCase(pathExtname(Chars(file.originalname))) \notin DocumentedExts

(***************************************************************************)
(* C1: whenever POST /api/process answers 200 for a document whose          *)
(* embedding was produced, the vector is already stored under the          *)
(* document's id.                                                          *)
(***************************************************************************)
C1_PersistedBeforeResponse ==
    \A r \in DOMAIN reqs :
        (Answered(r, "process") /\ reqs[r].status = 200 /\ ~reqs[r].embedding.null)
            => HasVector(reqs[r].documentId)

(***************************************************************************)
(* C2: when the Embedding Provider fails for a chunk, the ingestion is     *)
(* answered 200 with the document id, the document row stays in the        *)
(* catalog and is listed, and no vector is stored (or queued) for it.      *)
(***************************************************************************)
C2_EmbeddingFailureKeepsDocument ==
    /\ \A r \in DOMAIN reqs :
          reqs[r].embeddingError =>
              /\ reqs[r].pc = "done" /\ reqs[r].status = 200
              /\ reqs[r].documentId = reqs[r].docId
              /\ ingested[reqs[r].docId].embeddingError
    /\ \A id \in DOMAIN ingested :
          ingested[id].embeddingError =>
              /\ ingested[id].status = 200
              /\ \E d \in DOMAIN documents : documents[d].id = id
              /\ InListing(id)
              /\ ~HasVector(id) /\ ~VectorQueued(id)

C2_Witness ==
    \E r \in DOMAIN reqs :
        /\ Answered(r, "list") /\ reqs[r].status = 200
        /\ \E i \in DOMAIN reqs[r].results :
              /\ reqs[r].results[i].id \in DOMAIN ingested
              /\ ingested[reqs[r].results[i].id].embeddingError

(***************************************************************************)
(* C3: a document without a stored vector is in no search result, and it   *)
(* is in the catalog listing.                                              *)
(***************************************************************************)
C3_NoVectorNotSearchedButListed ==
    /\ \A r \in DOMAIN reqs :
          (Answered(r, "search") /\ reqs[r].status = 200) =>
              \A i \in DOMAIN reqs[r].results : HasVector(reqs[r].results[i].id)
    /\ \A d \in DOMAIN documents :
          ~HasVector(documents[d].id) => InListing(documents[d].id)
    /\ \A r \in DOMAIN reqs :
          (/\ Answered(r, "list") /\ reqs[r].status = 200
           /\ reqs[r].page = 1 /\ reqs[r].limit >= Len(documents)) =>
              \A d \in DOMAIN documents :
                  ~HasVector(documents[d].id) =>
                      \E i \in DOMAIN reqs[r].results :
                          reqs[r].results[i].id = documents[d].id

C3_Witness ==
    \E r \in DOMAIN reqs :
        /\ Answered(r, "search") /\ reqs[r].status = 200
        /\ reqs[r].results # <<>>
        /\ \E d \in DOMAIN documents :
              ~HasVector(documents[d].id) /\ ~VectorQueued(documents[d].id)

(***************************************************************************)
(* C4: when text extraction fails, the request is answered with an error   *)
(* in that step, and the step creates no document row, calls no Embedding  *)
(* Provider and stores or queues no vector.                                *)
(***************************************************************************)
C4_ExtractionFailureCreatesNothing ==
    [][\A r \in DOMAIN reqs :
          (~reqs[r].extractError /\ reqs'[r].extractError) =>
              /\ reqs'[r].pc = "done"
              /\ reqs'[r].status = 500 /\ reqs'[r].error # ""
              /\ reqs'[r].docId = 0 /\ reqs'[r].calls = 0
              /\ documents' = documents
              /\ embeddings' = embeddings
              /\ dbQueue' = dbQueue
              /\ ingested' = ingested]_vars

C4_Witness ==
    \E r \in DOMAIN reqs :
        /\ Answered(r, "process") /\ reqs[r].extractError
        /\ extname(reqs[r].filename) \in SupportedExts

(***************************************************************************)
(* C5: a failed write of the vector is fatal for the request: it is        *)
(* answered 500, not as a successful ingestion.                            *)
(***************************************************************************)
C5_VectorWriteFailureIs500 ==
    \A id \in DOMAIN ingested :
        ingested[id].vecWrite = "failed" => ingested[id].status = 500

(***************************************************************************)
(* C6: when the provider returns vectors of different lengths for the      *)
(* chunks of one document, the embedding fails with an error and no        *)
(* combined vector is produced or stored.                                  *)
(***************************************************************************)
C6_MixedLengthsFail ==
    \A r \in DOMAIN reqs :
        (Answered(r, "process") /\ MixedLengths(reqs[r].embs)) =>
            /\ reqs[r].embeddingError
            /\ reqs[r].embedding.null
            /\ ~VectorQueued(reqs[r].docId) /\ ~HasVector(reqs[r].docId)

(***************************************************************************)
(* C7: all stored vectors have the same dimensionality.                    *)
(***************************************************************************)
C7_UniformDimensionality ==
    \A i, j \in DOMAIN embeddings :
        Len(embeddings[i].vector) = Len(embeddings[j].vector)

(***************************************************************************)
(* C8: each stored vector refers to exactly one document row, and that     *)
(* row has a non-null content preview.                                     *)
(***************************************************************************)
C8_VectorHasOneDocument ==
    \A i \in DOMAIN embeddings :
        /\ Cardinality({d \in DOMAIN documents :
                           documents[d].id = embeddings[i].doc_id}) = 1
        /\ \A d \in DOMAIN documents :
              documents[d].id = embeddings[i].doc_id =>
                  documents[d].content_preview # SqlNullText

C8_Witness ==
    \E i, j \in DOMAIN embeddings : embeddings[i].doc_id # embeddings[j].doc_id

(***************************************************************************)
(* C9: a search answered 200 for page and limit returns exactly the rows   *)
(* at ranks (page-1)*limit+1 .. page*limit of the full ranking of the      *)
(* documents that have a vector.                                           *)
(***************************************************************************)
C9_PageOfRanking ==
    \A r \in DOMAIN reqs :
        (Answered(r, "search") /\ reqs[r].status = 200) =>
            LET ranked == SearchResults(SearchRanked(documents, embeddings,
                                                     reqs[r].qvec))
                first  == (reqs[r].page - 1) * reqs[r].limit + 1
                last   == Min(reqs[r].page * reqs[r].limit, Len(ranked))
            IN  /\ Len(reqs[r].results) = Max(0, last - first + 1)
                /\ \A k \in DOMAIN reqs[r].results :
                      reqs[r].results[k] = ranked[first + k - 1]

C9_Witness ==
    \E r \in DOMAIN reqs :
        /\ Answered(r, "search") /\ reqs[r].status = 200
        /\ reqs[r].page = 2 /\ reqs[r].limit = 1
        /\ Len(reqs[r].results) = 1

(***************************************************************************)
(* C10: within one search response the cosine distance to the probe        *)
(* vector is non-decreasing from the first result to the last.             *)
(***************************************************************************)
C10_DistanceNonDecreasing ==
    \A r \in DOMAIN reqs :
        (Answered(r, "search") /\ reqs[r].status = 200) =>
            \A i \in 1..(Len(reqs[r].results) - 1) :
                DistanceLeq(
                    vec_distance_cosine(VectorOf(reqs[r].results[i].id), reqs[r].qvec),
                    vec_distance_cosine(VectorOf(reqs[r].results[i + 1].id), reqs[r].qvec))

(***************************************************************************)
(* C11: every result of a search reports as similarity 1 minus the cosine  *)
(* distance of its stored vector to the probe vector, a number from -1 to  *)
(* 1 that is not clipped; a stored vector identical to the probe vector    *)
(* scores exactly 1.                                                       *)
(***************************************************************************)
C11_SimilarityIsOneMinusDistance ==
    \A r \in DOMAIN reqs :
        (Answered(r, "search") /\ reqs[r].status = 200) =>
            \A i \in DOMAIN reqs[r].results :
                LET v == VectorOf(reqs[r].results[i].id)
                    c == CosineKey(v, reqs[r].qvec)
                IN  /\ ~IsNaN(c)
                    /\ reqs[r].results[i].similarity = c
                    /\ RLeq(Num(-1), c) /\ RLeq(c, Num(1))
                    /\ (v = reqs[r].qvec => reqs[r].results[i].similarity = Num(1))

(***************************************************************************)
(* C12: a search whose query is empty or missing is answered 400 with the  *)
(* error "Query is required" in the step of its arrival, with no call to   *)
(* the Embedding Provider and no query of the Vector Store.                *)
(***************************************************************************)
C12_EmptyQueryRejected ==
    \A r \in DOMAIN reqs :
        (reqs[r].kind = "search" /\ reqs[r].query \in {NoQuery, ""}) =>
            /\ reqs[r].pc = "done"
            /\ reqs[r].status = 400 /\ reqs[r].error = "Query is required"
            /\ reqs[r].calls = 0
            /\ reqs[r].qvec = <<>> /\ reqs[r].results = <<>>

C12_Witness ==
    /\ \E r \in DOMAIN reqs :
          /\ Answered(r, "search") /\ reqs[r].query = ""
          /\ reqs[r].status = 400
    /\ embeddings # <<>>

(***************************************************************************)
(* C13: when the Embedding Provider fails for the query (the request       *)
(* leaves the provider call without a probe vector), the search is         *)
(* answered 500 "Failed to perform search" in that step, with no results,  *)
(* and the Vector Store is not queried.                                    *)
(***************************************************************************)
C13_ProviderFailureFailsSearch ==
    [][\A r \in DOMAIN reqs :
          (/\ reqs[r].pc = "queryEmbedding"
           /\ reqs'[r].pc # "queryEmbedding"
           /\ reqs'[r].qvec = <<>>) =>
              /\ reqs'[r].pc = "done"
              /\ reqs'[r].status = 500
              /\ reqs'[r].error = "Failed to perform search"
              /\ reqs'[r].results = <<>>
              /\ reqs'[r].calls = 1]_vars

C13_Witness ==
    /\ \E r \in DOMAIN reqs :
          /\ Answered(r, "search") /\ reqs[r].query = "q"
          /\ reqs[r].calls = 1 /\ reqs[r].qvec = <<>>
          /\ reqs[r].status = 500
    /\ embeddings # <<>>

(***************************************************************************)
(* C14: the catalog listing is newest first: of any two documents in one   *)
(* listing response, the one ingested later (the higher id) comes before   *)
(* the one ingested earlier.                                               *)
(***************************************************************************)
C14_ListingNewestFirst ==
    \A r \in DOMAIN reqs :
        (Answered(r, "list") /\ reqs[r].status = 200) =>
            \A i, j \in DOMAIN reqs[r].results :
                i < j => reqs[r].results[i].id > reqs[r].results[j].id

(***************************************************************************)
(* C15: GET /api/documents never returns more documents in one response    *)
(* than the documented maximum of limit, whatever limit the caller passes. *)
(***************************************************************************)
C15_AtMostDocumentedMax ==
    \A r \in DOMAIN reqs :
        (Answered(r, "list") /\ reqs[r].status = 200) =>
            Len(reqs[r].results) <= DocumentedMaxLimit

(***************************************************************************)
(* C16: the preview in the response of a successful ingestion is the       *)
(* stored preview of the document: the first PreviewLen characters of the  *)
(* extracted text, followed by the marker only when the text is longer.    *)
(***************************************************************************)
C16_ResponsePreviewIsStored ==
    \A r \in DOMAIN reqs :
        (Answered(r, "process") /\ reqs[r].status = 200) =>
            /\ reqs[r].preview =
                   SubSeq(reqs[r].content, 1, Min(PreviewLen, Len(reqs[r].content)))
                       \o (IF Len(reqs[r].content) > PreviewLen
                           THEN <<"...">> ELSE <<>>)
            /\ \E d \in DOMAIN documents :
                  /\ documents[d].id = reqs[r].documentId
                  /\ documents[d].content_preview = reqs[r].preview

(***************************************************************************)
(* C17: an upload of a file whose type is none of txt, pdf, docx, xlsx,    *)
(* csv is answered 400 with an error message, and the file is not stored.  *)
(***************************************************************************)
C17_InvalidTypeIs400 ==
    \A r \in DOMAIN reqs :
        (/\ Answered(r, "upload")
         /\ reqs[r].file.present /\ InvalidType(reqs[r].file)) =>
            /\ reqs[r].status = 400 /\ reqs[r].error # ""
            /\ ~reqs[r].stored

(***************************************************************************)
(* C18: POST /api/process with a filename that is not in ./uploads is      *)
(* answered 404 "File not found" in the step of its arrival; the request   *)
(* ends there with no text extracted and no Embedding Provider call, and   *)
(* the step creates no document row and stores or queues no vector.        *)
(***************************************************************************)
C18_MissingFileIs404 ==
    [][Len(reqs') = Len(reqs) + 1 =>
          LET req == reqs'[Len(reqs')]
          IN  (/\ req.kind = "process"
               /\ req.filename # ""
               /\ req.filename \notin uploadDir) =>
                  /\ req.pc = "done"
                  /\ req.status = 404 /\ req.error = "File not found"
                  /\ req.docId = 0 /\ req.calls = 0
                  /\ ~req.extractError /\ req.content = <<>>
                  /\ documents' = documents
                  /\ embeddings' = embeddings
                  /\ dbQueue' = dbQueue
                  /\ ingested' = ingested]_vars

C18_Witness ==
    /\ \E r \in DOMAIN reqs :
          /\ Answered(r, "process") /\ reqs[r].filename = "missing.pdf"
          /\ reqs[r].status = 404
    /\ documents # <<>>

(***************************************************************************)
(* C19: no step changes or removes a document row or a stored vector: the  *)
(* rows of both tables stay as they are, and a row that is added has an    *)
(* id no earlier row has.  An ingestion of a filename that was ingested    *)
(* before therefore adds a document (and, if embedded, a vector) beside    *)
(* the earlier pair.                                                       *)
(***************************************************************************)
C19_RowsNeverChange ==
    [][/\ Len(documents') >= Len(documents)
       /\ SubSeq(documents', 1, Len(documents)) = documents
       /\ \A n \in (Len(documents) + 1)..Len(documents') :
             \A d \in DOMAIN documents : documents[d].id # documents'[n].id
       /\ Len(embeddings') >= Len(embeddings)
       /\ SubSeq(embeddings', 1, Len(embeddings)) = embeddings
       /\ \A n \in (Len(embeddings) + 1)..Len(embeddings') :
             \A e \in DOMAIN embeddings :
                 /\ embeddings[e].id # embeddings'[n].id
                 /\ embeddings[e].doc_id # embeddings'[n].doc_id]_vars

C19_Witness ==
    \E d1, d2 \in DOMAIN documents :
        /\ d1 < d2
        /\ documents[d1].filename = documents[d2].filename
        /\ documents[d1].id # documents[d2].id
        /\ HasVector(documents[d1].id) /\ HasVector(documents[d2].id)

(***************************************************************************)
(* C20: for every text t and chunk size C >= 1, chunkText(t, C) returns    *)
(* ceil(len(t) / C) chunks, and the chunks joined in their order are t.    *)
(***************************************************************************)
C20_ChunksCoverText ==
    (call.fn = "chunkText" /\ call.returned) =>
        /\ Len(call.chunks) = Ceil(Len(call.text), call.chunkSize)
        /\ Concat(call.chunks) = call.text

C20_Witness ==
    /\ call.fn = "chunkText" /\ call.returned
    /\ call.text = <<"a", "b", "b">> /\ call.chunkSize = 2
    /\ call.chunks = <<(<<"a", "b">>), (<<"b">>)>>

(***************************************************************************)
(* C21: for an empty text generateEmbeddingsForDocument returns null       *)
(* without a call to the Embedding Provider and without an error; the      *)
(* ingestion is answered 200 with the id of the document row it created,   *)
(* and no vector is stored or queued for that document.                    *)
(***************************************************************************)
C21_EmptyTextNoEmbedding ==
    /\ \A r \in DOMAIN reqs :
          (/\ reqs[r].kind = "process"
           /\ reqs[r].docId # 0 /\ reqs[r].content = <<>>) =>
              /\ reqs[r].pc = "done" /\ reqs[r].status = 200
              /\ reqs[r].documentId = reqs[r].docId
              /\ reqs[r].calls = 0
              /\ reqs[r].embedding.null /\ ~reqs[r].embeddingError
              /\ \E d \in DOMAIN documents : documents[d].id = reqs[r].docId
              /\ ~HasVector(reqs[r].docId) /\ ~VectorQueued(reqs[r].docId)
    /\ \A id \in DOMAIN ingested :
          ingested[id].chunks = 0 =>
              /\ ingested[id].status = 200
              /\ ingested[id].calls = 0 /\ ~ingested[id].embeddingError
              /\ ingested[id].vecWrite = "none"
              /\ \E d \in DOMAIN documents : documents[d].id = id
              /\ ~HasVector(id) /\ ~VectorQueued(id)

C21_Witness ==
    /\ \E r \in DOMAIN reqs :
          /\ Answered(r, "process") /\ reqs[r].status = 200
          /\ reqs[r].content = <<>> /\ reqs[r].docId # 0
    /\ embeddings # <<>>
\* the positions that some chunk vector has
Positions(embs) == UNION {DOMAIN embs[k] : k \in DOMAIN embs}

\* position i of the first k vectors added up from 0 in their order
RECURSIVE SumAt(_, _, _)
SumAt(embs, i, k) ==
    IF k = 0 THEN Num(0) ELSE JsAdd(SumAt(embs, i, k - 1), At(embs[k], i))

\* the vectors in the order given by the permutation p of their indices
Permuted(embs, p) == [k \in DOMAIN embs |-> embs[p[k]]]

\* generateEmbeddingsForDocument has returned a combined vector
Combined ==
    /\ call.fn = "generateEmbeddingsForDocument"
    /\ call.returned
    /\ ~call.result.null

(***************************************************************************)
(* C22: the combined vector is the element-wise mean of the chunk          *)
(* vectors: for every position i that the chunk vectors have, result[i] is *)
(* the sum of position i over all chunk vectors divided by the number of   *)
(* chunks (a number: every chunk vector has a value at i).                 *)
(***************************************************************************)
C22_ResultIsElementwiseMean ==
    Combined =>
        \A i \in Positions(call.embeddings) :
            /\ i \in DOMAIN call.result.vec
            /\ ~IsNaN(call.result.vec[i])
            /\ call.result.vec[i] =
                   JsDiv(SumAt(call.embeddings, i, Len(call.embeddings)),
                         Len(call.embeddings))

\* the same over chunk vectors of one length
C22_MeanOfEqualLengths ==
    Combined /\ ~MixedLengths(call.embeddings) => C22_ResultIsElementwiseMean

(***************************************************************************)
(* C23: mean-pooling is order-independent: for chunk vectors of one        *)
(* length, averaging the list in any other order gives the same combined   *)
(* vector.                                                                 *)
(***************************************************************************)
C23_OrderIndependent ==
    Combined /\ ~MixedLengths(call.embeddings) =>
        \A p \in Permutations(DOMAIN call.embeddings) :
            avgEmbedding(Permuted(call.embeddings, p)) = call.result.vec

\* the same for at most two chunk vectors
C23_OrderIndependentUpToTwo ==
    Len(call.embeddings) <= 2 => C23_OrderIndependent

\* the calls of request r to the Embedding Provider that have been
\* answered, with a vector or with a failure
CallsAnswered(r) ==
    Len(reqs[r].embs) + (IF reqs[r].embeddingError THEN 1 ELSE 0)

\* the stored vectors of document id
VectorsOf(id) == {i \in DOMAIN embeddings : embeddings[i].doc_id = id}

(***************************************************************************)
(* C24: within one ingestion the Embedding Provider is called for the      *)
(* chunks one at a time in their order: the calls made never exceed the    *)
(* calls answered by more than one, while chunks remain to be embedded     *)
(* exactly the call for the chunk after the last one answered is           *)
(* outstanding, and no more calls are made than there are chunks.          *)
(***************************************************************************)
C24_OneCallOutstanding ==
    \A r \in DOMAIN reqs :
        reqs[r].kind = "process" =>
            /\ reqs[r].calls <= Len(reqs[r].chunks)
            /\ reqs[r].calls - CallsAnswered(r) \in {0, 1}
            /\ reqs[r].pc = "embed" => reqs[r].calls = Len(reqs[r].embs) + 1
            /\ reqs[r].pc = "done" => reqs[r].calls = CallsAnswered(r)

C24_Witness ==
    \E r \in DOMAIN reqs :
        /\ reqs[r].kind = "process" /\ reqs[r].pc = "embed"
        /\ Len(reqs[r].chunks) = 2
        /\ Len(reqs[r].embs) = 1
        /\ reqs[r].calls = 2

(***************************************************************************)
(* C25: when the embedding of a chunk fails, the embedding of the document *)
(* is over: the failed call is the last call of that ingestion, no         *)
(* combined vector is produced from the chunks embedded before it, and no  *)
(* vector is ever queued or stored for the document.                       *)
(***************************************************************************)
C25_FailureAbortsEmbedding ==
    /\ \A r \in DOMAIN reqs :
          (reqs[r].kind = "process" /\ reqs[r].embeddingError) =>
              /\ reqs[r].pc = "done"
              /\ reqs[r].calls = Len(reqs[r].embs) + 1
              /\ reqs[r].embedding.null
              /\ ~VectorQueued(reqs[r].docId)
              /\ ~HasVector(reqs[r].docId)
    /\ \A id \in DOMAIN ingested :
          ingested[id].embeddingError =>
              /\ ingested[id].calls <= ingested[id].chunks
              /\ ingested[id].vecWrite = "none"
              /\ ~VectorQueued(id)
              /\ ~HasVector(id)

C25_Witness ==
    /\ \E r \in DOMAIN reqs :
          /\ Answered(r, "process") /\ reqs[r].embeddingError
          /\ Len(reqs[r].chunks) = 2
          /\ Len(reqs[r].embs) = 1
    /\ \E id \in DOMAIN ingested :
          /\ ingested[id].embeddingError
          /\ ingested[id].chunks = 2 /\ ingested[id].calls = 1

(***************************************************************************)
(* C26: an ingestion of a text of length n > 0 that is answered 200 with   *)
(* every chunk embedded has made exactly ceil(n / ChunkSize) calls to the  *)
(* Embedding Provider, one for each chunk, and once the database has dealt *)
(* with its INSERT exactly one vector is stored for the document.          *)
(***************************************************************************)
C26_CallsPerChunkOneVector ==
    /\ \A r \in DOMAIN reqs :
          (/\ Answered(r, "process") /\ reqs[r].status = 200
           /\ ~reqs[r].embeddingError /\ Len(reqs[r].content) > 0) =>
              /\ Len(reqs[r].chunks) = Ceil(Len(reqs[r].content), ChunkSize)
              /\ reqs[r].calls = Len(reqs[r].chunks)
              /\ Len(reqs[r].embs) = Len(reqs[r].chunks)
    /\ \A id \in DOMAIN ingested :
          (/\ ingested[id].status = 200 /\ ~ingested[id].embeddingError
           /\ ingested[id].chunks > 0 /\ ingested[id].vecWrite # "queued") =>
              /\ ingested[id].calls = ingested[id].chunks
              /\ Cardinality(VectorsOf(id)) = 1

\* the same without the ingestions whose INSERT INTO embeddings failed
C26_UnlessVectorWriteFailed ==
    /\ \A r \in DOMAIN reqs :
          (/\ Answered(r, "process") /\ reqs[r].status = 200
           /\ ~reqs[r].embeddingError /\ Len(reqs[r].content) > 0) =>
              /\ Len(reqs[r].chunks) = Ceil(Len(reqs[r].content), ChunkSize)
              /\ reqs[r].calls = Len(reqs[r].chunks)
              /\ Len(reqs[r].embs) = Len(reqs[r].chunks)
    /\ \A id \in DOMAIN ingested :
          (/\ ingested[id].status = 200 /\ ~ingested[id].embeddingError
           /\ ingested[id].chunks > 0) =>
              /\ ingested[id].calls = ingested[id].chunks
              /\ ingested[id].vecWrite = "stored" =>
                     Cardinality(VectorsOf(id)) = 1
              /\ ingested[id].vecWrite # "stored" => VectorsOf(id) = {}

(***************************************************************************)
(* C27: under every interleaving of ingestions a vector is stored under    *)
(* the id of the document row that the request whose chunks produced the   *)
(* vector created: the id a request holds is the id of the row its own     *)
(* INSERT added and no other request holds it; the INSERT INTO embeddings  *)
(* a request hands to the database carries that id and the average of that *)
(* request's chunk vectors; and a row added to the embeddings table is     *)
(* one of the INSERTs that were handed over, as it was handed over.        *)
(***************************************************************************)
C27_VectorUnderOwnDocument ==
    [][/\ \A r \in DOMAIN reqs :
             (reqs[r].pc = "insertDocument" /\ reqs'[r].docId # 0) =>
                 /\ Len(documents') = Len(documents) + 1
                 /\ documents'[Len(documents')].id = reqs'[r].docId
                 /\ documents'[Len(documents')].filename = reqs[r].filename
                 /\ documents'[Len(documents')].content_preview =
                        reqs[r].contentPreview
                 /\ \A d \in DOMAIN documents :
                        documents[d].id # reqs'[r].docId
                 /\ \A o \in DOMAIN reqs' :
                        o # r => reqs'[o].docId # reqs'[r].docId
       /\ \A r \in DOMAIN reqs :
             reqs[r].pc = "embed" =>
                 /\ reqs'[r].docId = reqs[r].docId
                 /\ SubSeq(reqs'[r].embs, 1, Len(reqs[r].embs)) = reqs[r].embs
       /\ Len(dbQueue') > Len(dbQueue) =>
             /\ Len(dbQueue') = Len(dbQueue) + 1
             /\ SubSeq(dbQueue', 1, Len(dbQueue)) = dbQueue
             /\ \E r \in DOMAIN reqs :
                    /\ reqs[r].kind = "process" /\ reqs[r].pc # "done"
                    /\ reqs'[r].pc = "done" /\ reqs'[r].docId # 0
                    /\ reqs'[r].embs # <<>>
                    /\ dbQueue'[Len(dbQueue')] =
                           [doc_id |-> reqs'[r].docId,
                            vector |-> Float32Array(avgEmbedding(reqs'[r].embs))]
       /\ Len(embeddings') > Len(embeddings) =>
             /\ Len(embeddings') = Len(embeddings) + 1
             /\ \E k \in DOMAIN dbQueue :
                    /\ embeddings'[Len(embeddings')].doc_id = dbQueue[k].doc_id
                    /\ embeddings'[Len(embeddings')].vector = dbQueue[k].vector
                    /\ Len(dbQueue') = Len(dbQueue) - 1]_vars

C27_Witness ==
    /\ Len(embeddings) = 2
    /\ embeddings[1].doc_id = 2
    /\ embeddings[2].doc_id = 1
    /\ embeddings[1].vector # embeddings[2].vector

(***************************************************************************)
(* C28: when the INSERT INTO documents fails, the request is answered 500  *)
(* in that step, without a call to the Embedding Provider and without a    *)
(* document row, a queued INSERT or a stored vector coming into being; a   *)
(* request that has called the Embedding Provider or produced a vector     *)
(* holds the id of the document row its INSERT created.                    *)
(***************************************************************************)
C28_InsertFailureStopsIngestion ==
    [][\A r \in DOMAIN reqs :
          /\ (/\ reqs[r].pc = "insertDocument"
              /\ reqs'[r].pc # "insertDocument"
              /\ reqs'[r].docId = 0) =>
                 /\ reqs'[r].pc = "done"
                 /\ reqs'[r].status = 500
                 /\ reqs'[r].error = "Failed to process document"
                 /\ reqs'[r].calls = 0
                 /\ reqs'[r].embedding.null
                 /\ documents' = documents
                 /\ embeddings' = embeddings
                 /\ dbQueue' = dbQueue
                 /\ ingested' = ingested
          /\ (reqs'[r].kind = "process"
                 /\ (reqs'[r].calls > 0 \/ ~reqs'[r].embedding.null)) =>
                 /\ reqs'[r].docId \in DOMAIN documents'
                 /\ documents'[reqs'[r].docId].id = reqs'[r].docId]_vars

C28_Witness ==
    /\ \E r \in DOMAIN reqs :
          /\ Answered(r, "process") /\ reqs[r].status = 500
          /\ ~reqs[r].extractError /\ reqs[r].content # <<>>
          /\ reqs[r].docId = 0 /\ reqs[r].calls = 0
    /\ documents # <<>>

\* request r waits for its response
Pending(r) ==
    /\ r \in DOMAIN reqs
    /\ reqs[r].kind \in {"process", "search"}
    /\ reqs[r].pc \notin {"done", "closed"}

\* the response to request r has been sent
Responded(r) == r \in DOMAIN reqs /\ reqs[r].pc \in {"done", "closed"}

(***************************************************************************)
(* C29: when the Text Extractor, the Embedding Provider and the database   *)
(* answer every call, every POST /api/process and POST /api/search request *)
(* gets its response; a request that waits has sent no response, the step  *)
(* that answers it sends one, and no step sends a response for a request   *)
(* that has been answered.                                                 *)
(***************************************************************************)
C29_AnsweredExactlyOnce ==
    /\ \A r \in 1..MaxLiveReqs : Pending(r) ~> Responded(r)
    /\ [][\A r \in DOMAIN reqs' :
             /\ reqs'[r].pc \notin {"done", "closed"} => reqs'[r].status = 0
             /\ reqs'[r].pc = "done" =>
                    /\ reqs'[r].status \in {200, 400, 404, 500}
                    /\ r \in DOMAIN reqs => reqs[r].pc \notin {"done", "closed"}
             /\ (r \in DOMAIN reqs /\ reqs[r].pc \in {"done", "closed"}) =>
                    reqs'[r] = Closed]_vars

C29_Witness ==
    /\ Len(reqs) = 2
    /\ Len(ingested) = 1
    /\ ingested[1].status = 200 /\ ingested[1].chunks = 2
    /\ Answered(2, "search") /\ reqs[2].status = 200
    /\ reqs[1] = Closed

\* the bytes are UTF-8 text: sequences of one byte and of two bytes
RECURSIVE WellFormedUtf8(_)
WellFormedUtf8(bytes) ==
    \/ bytes = <<>>
    \/ Head(bytes) < 128 /\ WellFormedUtf8(Tail(bytes))
    \/ /\ Len(bytes) >= 2
       /\ Head(bytes) >= 194 /\ Head(bytes) <= 223
       /\ IsContinuation(bytes[2])
       /\ WellFormedUtf8(SubSeq(bytes, 3, Len(bytes)))

\* the UTF-8 bytes of a text
RECURSIVE Utf8Encode(_)
Utf8Encode(chars) ==
    IF chars = <<>> THEN <<>>
    ELSE LET c == Head(chars)
         IN  (IF c < 128 THEN <<c>>
              ELSE IF c < 2048 THEN <<192 + (c \div 64), 128 + (c % 64)>>
              ELSE <<224 + (c \div 4096), 128 + ((c \div 64) % 64),
                     128 + (c % 64)>>)
                 \o Utf8Encode(Tail(chars))

====
